---- MODULE Spec2Model ----
(***************************************************************************)
(* Model of server_inventory.py: the dispatcher in main (a pool of ten     *)
(* worker threads running get_server_info once per entry of the host      *)
(* list, the as_completed loop that assembles servers_data) and the        *)
(* per-host collection of get_server_info (session open, the fixed         *)
(* sequence of remote commands, the parsing of their text, session close). *)
(* Texts are TLA+ strings; Python's str methods are operators computed     *)
(* character by character.                                                 *)
(***************************************************************************)
EXTENDS Integers, Sequences, FiniteSets, TLC

VARIABLES
    servers_list,   \* main: the list load_servers returned
    refused,        \* environment: the calls whose ssh connect will raise
    env,            \* environment: the texts nvidia-smi and df may print
    hangs,          \* environment: the pairs <<call, position>> that never return
    mpc,            \* main: position ("submit", "as_completed", "render", "done")
    tpc,            \* per submitted call of get_server_info: its position
    session,        \* per call: state of its Server object's ssh session
    loc,            \* per call: local variables of get_server_info
    result,         \* per call: its future's result, the data half of the pair
    issued,         \* per call: remote interactions so far, in order
    servers_data,   \* main: the dict assembled by the as_completed loop
    lastDone,       \* history: per identifier, the call that completed last
    rendered,       \* arguments of the calls to create_spreadsheet
    sheet,          \* create_spreadsheet: per item, the rows of the worksheet
    fpc,            \* df parsing on its own: position ("idle", "input", "parsed")
    df_text,        \* df parsing on its own: the text exec_command returned
    df_row,         \* df parsing on its own: the fields df_text was built from
    df_kept         \* df parsing on its own: per candidate line, whether kept

vars == <<servers_list, refused, env, hangs, mpc, tpc, session, loc, result,
          issued, servers_data, lastDone, rendered, sheet, fpc, df_text, df_row,
          df_kept>>

dispatchVars == <<servers_list, refused, env, hangs, mpc, tpc, session, loc,
                  result, issued, servers_data, lastDone, rendered, sheet>>

filterVars == <<fpc, df_text, df_row, df_kept>>

-----------------------------------------------------------------------------
(* Bounds of the model. *)

\* longest host list whose hosts are collected in full detail
MaxHosts == 2

\* how far the long, unreachable fleets exceed the pool size
FleetExcess == 1

\* max_workers of the ThreadPoolExecutor in main
max_workers == 10

-----------------------------------------------------------------------------
(* Python str methods. *)

Char(s, i) == SubSeq(s, i, i)

Whitespace == {" ", "\n", "\t", "\r"}

Digits == {"0", "1", "2", "3", "4", "5", "6", "7", "8", "9"}

\* s.startswith(p)
StartsWith(s, p) == Len(s) >= Len(p) /\ SubSeq(s, 1, Len(p)) = p

\* s.endswith(p)
EndsWith(s, p) == Len(s) >= Len(p) /\ SubSeq(s, Len(s) - Len(p) + 1, Len(s)) = p

\* s.startswith(tuple) / s.endswith(tuple)
StartsWithAny(s, ps) == \E p \in ps : StartsWith(s, p)

EndsWithAny(s, ps) == \E p \in ps : EndsWith(s, p)

RECURSIVE LStrip(_)
LStrip(s) ==
    IF Len(s) > 0 /\ Char(s, 1) \in Whitespace THEN LStrip(SubSeq(s, 2, Len(s))) ELSE s

RECURSIVE RStrip(_)
RStrip(s) ==
    IF Len(s) > 0 /\ Char(s, Len(s)) \in Whitespace
    THEN RStrip(SubSeq(s, 1, Len(s) - 1))
    ELSE s

\* s.strip()
Strip(s) == RStrip(LStrip(s))

\* index of the first occurrence of the character c in s at or after i, 0 if none
RECURSIVE Find(_, _, _)
Find(s, c, i) ==
    IF i > Len(s) THEN 0
    ELSE IF Char(s, i) = c THEN i
    ELSE Find(s, c, i + 1)

\* s.split(c) for a one-character separator: empty fields are kept
RECURSIVE SplitOn(_, _)
SplitOn(s, c) ==
    LET j == Find(s, c, 1)
    IN  IF j = 0 THEN <<s>>
        ELSE <<SubSeq(s, 1, j - 1)>> \o SplitOn(SubSeq(s, j + 1, Len(s)), c)

\* length of the run of non-whitespace characters of s starting at i
RECURSIVE WordLen(_, _)
WordLen(s, i) ==
    IF i > Len(s) \/ Char(s, i) \in Whitespace THEN 0 ELSE 1 + WordLen(s, i + 1)

\* s.split(): fields separated by runs of whitespace, no empty fields
RECURSIVE SplitWS(_)
SplitWS(s) ==
    LET t == LStrip(s)
        n == WordLen(t, 1)
    IN  IF Len(t) = 0 THEN <<>>
        ELSE <<SubSeq(t, 1, n)>> \o SplitWS(SubSeq(t, n + 1, Len(t)))

\* " ".join(fields)
RECURSIVE Join(_)
Join(fields) ==
    IF Len(fields) = 0 THEN ""
    ELSE IF Len(fields) = 1 THEN fields[1]
    ELSE fields[1] \o " " \o Join(Tail(fields))

\* stdout.read().decode().strip() of Server.exec_command
ExecResult(stdout) == Strip(stdout)

-----------------------------------------------------------------------------
(* The storage filter of get_server_info. *)

\* re.match(r"/dev/.*p\d+$", device): "/dev/", anything, a "p", then one or
\* more digits up to the end of the text
PartitionPattern(device) ==
    /\ StartsWith(device, "/dev/")
    /\ \E j \in 6 .. Len(device) - 1 :
          /\ Char(device, j) = "p"
          /\ \A k \in j + 1 .. Len(device) : Char(device, k) \in Digits

\* the condition without its third conjunct
IgnoresPartitionPattern(device, size, mount) ==
    /\ StartsWith(device, "/dev/")
    /\ ~StartsWith(device, "/dev/loop")
    /\ ~StartsWith(mount, "/snap/")
    /\ ~StartsWith(mount, "/boot/")
    /\ EndsWithAny(size, {"T", "G"})
    /\ ~StartsWithAny(size, {"1G", "2G", "3G", "4G", "5G"})

\* the condition with the size prefixes compared as numbers below ten
ComparesSizeAsNumber(device, size, mount) ==
    /\ StartsWith(device, "/dev/")
    /\ ~StartsWith(device, "/dev/loop")
    /\ ~PartitionPattern(device)
    /\ ~StartsWith(mount, "/snap/")
    /\ ~StartsWith(mount, "/boot/")
    /\ EndsWithAny(size, {"T", "G"})
    /\ ~StartsWithAny(size, {"1", "2", "3", "4", "5"})

\* the condition of the if statement on a row's device, size and mount
StorageFilter(device, size, mount) ==
    /\ StartsWith(device, "/dev/")
    /\ ~StartsWith(device, "/dev/loop")
    /\ ~PartitionPattern(device)
    /\ ~StartsWith(mount, "/snap/")
    /\ ~StartsWith(mount, "/boot/")
    /\ EndsWithAny(size, {"T", "G"})
    /\ ~StartsWithAny(size, {"1G", "2G", "3G", "4G", "5G"})

\* the split without the slice that skips the header
ConsidersHeader(df_output) == SplitOn(df_output, "\n")

\* df_output.split("\n")[1:]
CandidateLines(df_output) == Tail(SplitOn(df_output, "\n"))

\* whether the loop body appends a StorageFact for this line (leaving aside
\* a failure of the UUID query)
KeepsLine(line) ==
    LET parts == SplitWS(line)
    IN  /\ Len(parts) >= 6
        /\ StorageFilter(parts[1], parts[2], parts[6])

-----------------------------------------------------------------------------
(* GPU parsing of get_server_info. *)

\* the lines the loop over gpu_info.split("\n") does not skip
GpuLines(gpu_info) ==
    IF gpu_info = "" THEN <<>>
    ELSE SelectSeq(SplitOn(gpu_info, "\n"), LAMBDA line : Strip(line) /= "")

\* name, vram = line.split(",") raises ValueError unless there are two fields
GpuParseFails(gpu_info) ==
    \E n \in 1 .. Len(GpuLines(gpu_info)) :
        Len(SplitOn(GpuLines(gpu_info)[n], ",")) /= 2

\* the fields of a line taken as they are, without strip()
KeepsRawFields(gpu_info) ==
    [n \in 1 .. Len(GpuLines(gpu_info)) |->
        LET fields == SplitOn(GpuLines(gpu_info)[n], ",")
        IN  [type |-> fields[1], vram |-> fields[2]]]

\* the list gpus when no line fails
ParseGpus(gpu_info) ==
    [n \in 1 .. Len(GpuLines(gpu_info)) |->
        LET fields == SplitOn(GpuLines(gpu_info)[n], ",")
        IN  [type |-> Strip(fields[1]), vram |-> Strip(fields[2])]]

-----------------------------------------------------------------------------
(* The remote hosts: what their commands write to standard output. *)

CmdHostname == "hostname"
CmdGpu == "nvidia-smi --query-gpu=name,memory.total --format=csv,noheader"
CmdNproc == "nproc"
CmdLscpu == "lscpu | grep 'Model name' | cut -f 2 -d ':'"
CmdFree == "free -h | awk '/^Mem:/ {print $2}'"
CmdDf == "df -h"
CmdBlkid(device) == "sudo blkid -s UUID -o value " \o device

HostnameOut(h) == h \o "\n"

GpuOutputs ==
    { "",
      "Tesla K80, 11441 MiB, extra\n" }

NprocOut == "64\n"
LscpuOut == "  AMD EPYC 7742 64-Core Processor\n"
FreeOut == "503Gi\n"

DfHeader == "Filesystem Size Used Avail Use% Mounted on"

DfOutputs ==
    { "",
      DfHeader \o "\n/dev/sdb 1.8T 1T 800G 56% /mnt\ntmpfs 64G 0 64G 0% /dev/shm\n/dev/sdc 15G 1G 14G 7% /scratch\n" }

BlkidOut(device) == "uuid-of-" \o device \o "\n"

-----------------------------------------------------------------------------
(* Host lists. *)

\* decimal text of a natural number
RECURSIVE Decimal(_)
Decimal(n) ==
    IF n < 10 THEN Char("0123456789", n + 1)
    ELSE Decimal(n \div 10) \o Char("0123456789", (n % 10) + 1)

HostName(k) == "node" \o Decimal(k)

\* lists of host numbers of length n in which host k first occurs after
\* hosts 1 .. k-1 (every list with repetitions, up to renaming of the hosts)
RECURSIVE NumberLists(_)
NumberLists(n) ==
    IF n = 0 THEN {<<>>}
    ELSE { Append(s, k) : s \in NumberLists(n - 1), k \in 1 .. n } 

MaxOf(s) == IF Len(s) = 0 THEN 0 ELSE CHOOSE m \in {s[j] : j \in 1 .. Len(s)} :
                                         \A j \in 1 .. Len(s) : s[j] <= m

Canonical(s) == \A j \in 1 .. Len(s) : s[j] <= 1 + MaxOf(SubSeq(s, 1, j - 1))

\* the host lists collected in full detail
ShortLists ==
    { [j \in 1 .. Len(s) |-> HostName(s[j])] :
        s \in { t \in UNION { NumberLists(n) : n \in 0 .. MaxHosts } : Canonical(t) } }

\* fleets around the size of the pool
FleetLists ==
    { [j \in 1 .. n |-> HostName(j)] :
        n \in max_workers .. max_workers + FleetExcess }

Range(s) == { s[j] : j \in 1 .. Len(s) }

-----------------------------------------------------------------------------
(* Python values. *)

\* None, as the data half of a returned pair
None == [none |-> TRUE]

\* a future that holds the exception its call raised instead of a result
Raised == [raised |-> TRUE]

\* a future that is not finished
Pending == [pending |-> TRUE]

\* truth value of the data half: None is false, the inventory dict (which
\* always has its five keys) is true
Truthy(data) == data /= None

\* a dict keeps its keys in insertion order: a sequence of key/value items
DictKeys(d) == [j \in 1 .. Len(d) |-> d[j].key]

DictHas(d, k) == \E j \in 1 .. Len(d) : d[j].key = k

DictGet(d, k) == d[CHOOSE j \in 1 .. Len(d) : d[j].key = k].value

\* a new key goes in front of the others
InsertsInFront(d, k, v) ==
    IF DictHas(d, k)
    THEN [j \in 1 .. Len(d) |-> IF d[j].key = k THEN [key |-> k, value |-> v] ELSE d[j]]
    ELSE <<[key |-> k, value |-> v]>> \o d

\* d[k] = v
DictSet(d, k, v) ==
    IF DictHas(d, k)
    THEN [j \in 1 .. Len(d) |-> IF d[j].key = k THEN [key |-> k, value |-> v] ELSE d[j]]
    ELSE Append(d, [key |-> k, value |-> v])

-----------------------------------------------------------------------------
(* State of the calls of get_server_info. *)

Calls == 1 .. Len(servers_list)

\* positions at which a call occupies a worker thread
InFlightPcs == {"connect", "hostname", "gpu", "nproc", "lscpu", "free", "df",
                "blkid", "close"}

\* positions at which the next statement is an exec_command
ExecPcs == {"hostname", "gpu", "nproc", "lscpu", "free", "df", "blkid"}

\* the call is in a connect or a command that never returns
Stuck(i) == <<i, tpc[i]>> \in hangs

InFlight == { i \in Calls : tpc[i] \in InFlightPcs }

\* locals of get_server_info before any of them is assigned
NoLocals ==
    [hostname |-> "", gpus |-> <<>>, cpu_count |-> "", cpu_type |-> "",
     ram_info |-> "", rows |-> <<>>, storage_info |-> <<>>]

\* the rows of the df loop that reach the UUID query, each as its
\* parts = line.split()
RowsToQuery(lines) ==
    LET kept == SelectSeq(lines, KeepsLine)
    IN  [n \in 1 .. Len(kept) |-> SplitWS(kept[n])]

\* the dict of the return statement
Inventory(l) ==
    [hostname |-> l.hostname,
     gpu |-> l.gpus,
     cpu |-> [count |-> Strip(l.cpu_count), type |-> Strip(l.cpu_type)],
     ram |-> Strip(l.ram_info),
     storage |-> l.storage_info]

IdleFilter == fpc = "idle" /\ df_text = "" /\ df_row = <<>> /\ df_kept = <<>>

InitCalls ==
    /\ mpc = "submit"
    /\ tpc = [i \in Calls |-> "unsubmitted"]
    /\ session = [i \in Calls |-> "none"]
    /\ loc = [i \in Calls |-> NoLocals]
    /\ result = [i \in Calls |-> Pending]
    /\ issued = [i \in Calls |-> <<>>]
    /\ servers_data = <<>>
    /\ lastDone = [h \in Range(servers_list) |-> 0]
    /\ rendered = <<>>
    /\ sheet = <<>>

\* what the hosts of the fleet print for the GPU query and for df -h
FleetTexts == [gpu |-> GpuOutputs, df |-> DfOutputs, gpu_lines |-> <<>>,
               df_rows |-> <<>>]

\* every connect and every command returns or raises
NoHangs == hangs = {}

\* main before its with statement, servers_list loaded, servers_data = {}
Init ==
    /\ servers_list \in ShortLists
    /\ refused \in SUBSET (1 .. Len(servers_list))
    /\ env = FleetTexts
    /\ NoHangs
    /\ InitCalls
    /\ IdleFilter

\* the same for fleets of unreachable hosts around the pool size, and for
\* the fleet of one reachable host
InitFleet ==
    /\ \/ servers_list \in FleetLists /\ refused = 1 .. Len(servers_list)
       \/ servers_list = <<HostName(1)>> /\ refused = {}
    /\ env = FleetTexts
    /\ NoHangs
    /\ InitCalls
    /\ IdleFilter

-----------------------------------------------------------------------------
(* main. *)

\* executor.submit(get_server_info, server) for the next server of the list
Submit ==
    /\ mpc = "submit"
    /\ \E i \in Calls :
          /\ tpc[i] = "unsubmitted"
          /\ \A j \in 1 .. i - 1 : tpc[j] /= "unsubmitted"
          /\ tpc' = [tpc EXCEPT ![i] = "queued"]
    /\ UNCHANGED <<servers_list, refused, env, hangs, sheet,
                   mpc, session, loc, result, issued,
                   servers_data, lastDone, rendered, filterVars>>

\* the dict comprehension is complete: as_completed(future_to_server) starts
AsCompleted ==
    /\ mpc = "submit"
    /\ \A i \in Calls : tpc[i] /= "unsubmitted"
    /\ mpc' = "as_completed"
    /\ UNCHANGED <<servers_list, refused, env, hangs, sheet,
                   tpc, session, loc, result, issued,
                   servers_data, lastDone, rendered, filterVars>>

\* the loop body without its if
StoresEveryOutcome(i) ==
    DictSet(servers_data, servers_list[i], result[i])

\* a failed host empties the dict
ForgetsOnFailure(i) ==
    IF Truthy(result[i])
    THEN DictSet(servers_data, servers_list[i], result[i])
    ELSE <<>>

\* the inventory is stored with its rank of arrival in place of the ram text
RanksArrivals(i) ==
    IF Truthy(result[i])
    THEN DictSet(servers_data, servers_list[i],
                 [result[i] EXCEPT !.ram = Decimal(Len(servers_data))])
    ELSE servers_data

\* an entry that exists is not written again
KeepsFirstWrite(i) ==
    IF Truthy(result[i]) /\ ~DictHas(servers_data, servers_list[i])
    THEN DictSet(servers_data, servers_list[i], result[i])
    ELSE servers_data

\* servers_data after the loop body for the future of call i
Stored(i) ==
    IF Truthy(result[i])
    THEN DictSet(servers_data, servers_list[i], result[i])
    ELSE servers_data

\* one iteration of the as_completed loop: a finished future is yielded and
\* future.result() either raises the call's exception, which main does not
\* catch, or is unpacked, and the body runs
Consume(i) ==
    /\ mpc = "as_completed"
    /\ tpc[i] = "done"
    /\ tpc' = [tpc EXCEPT ![i] = "yielded"]
    /\ IF result[i] = Raised
       THEN mpc' = "crashed" /\ servers_data' = servers_data
       ELSE mpc' = mpc /\ servers_data' = Stored(i)
    /\ UNCHANGED <<servers_list, refused, env, hangs, sheet,
                   session, loc, result, issued,
                   lastDone, rendered, filterVars>>

\* the loop stops at the first future it yielded
LeavesEarly == \E i \in Calls : tpc[i] = "yielded"

\* as_completed is exhausted when every future has been yielded
LoopExhausted == \A i \in Calls : tpc[i] = "yielded"

\* the loop ends and the with block is left (executor.shutdown(wait=True))
ExitWith ==
    /\ mpc = "as_completed"
    /\ LoopExhausted
    /\ InFlight = {}
    /\ mpc' = "render"
    /\ UNCHANGED <<servers_list, refused, env, hangs, sheet,
                   tpc, session, loc, result, issued,
                   servers_data, lastDone, rendered, filterVars>>

\* rows first .. last, none when last < first
Rows(first, last) == { r \in first .. last : TRUE }

\* the body of create_spreadsheet's loop for one item, entered with the row
\* counter at row: the rows it writes cells of, by column group, and the
\* row counter it leaves
WriteItem(server_id, data, row) ==
    IF data = None
    THEN [server_id |-> server_id, first |-> row, id_rows |-> {row},
          gpu_rows |-> {}, cpu_rows |-> {}, storage_rows |-> {},
          next |-> row + 1]
    ELSE LET gpu_info == data.gpu
             storage_info == data.storage
             after_gpus == row + Len(gpu_info)
             after_ids == IF Len(gpu_info) = 0 THEN after_gpus + 1 ELSE after_gpus
         IN  [server_id |-> server_id, first |-> row,
              id_rows |-> Rows(row, after_ids - 1),
              gpu_rows |-> Rows(row, after_gpus - 1),
              cpu_rows |-> {after_ids - 1},
              storage_rows |-> Rows(after_ids - 1, after_ids + Len(storage_info) - 2),
              next |-> after_ids + Len(storage_info)]

\* the loop over servers_data.items(), entered with the row counter at row
RECURSIVE WriteItems(_, _)
WriteItems(items, row) ==
    IF Len(items) = 0 THEN <<>>
    ELSE LET item == WriteItem(Head(items).key, Head(items).value, row)
         IN  <<item>> \o WriteItems(Tail(items), item.next)

\* create_spreadsheet(servers_data, ...) and the two prints
CreateSpreadsheet ==
    /\ mpc = "render"
    /\ rendered' = Append(rendered, servers_data)
    /\ sheet' = WriteItems(servers_data, 2)
    /\ mpc' = "done"
    /\ UNCHANGED <<servers_list, refused, env, hangs,
                   tpc, session, loc, result, issued,
                   servers_data, lastDone, filterVars>>

-----------------------------------------------------------------------------
(* The worker threads: get_server_info. *)

\* a pool without a bound
Unbounded == TRUE

\* a worker thread is free to take a work item
\* a pool of one worker
SingleWorker == Cardinality(InFlight) < 1

WorkerFree == Cardinality(InFlight) < max_workers

\* a worker takes the oldest queued call and runs it up to the Server(...)
Start(i) ==
    /\ tpc[i] = "queued"
    /\ \A j \in 1 .. i - 1 : tpc[j] /= "queued"
    /\ WorkerFree
    /\ tpc' = [tpc EXCEPT ![i] = "connect"]
    /\ UNCHANGED <<servers_list, refused, env, hangs, sheet,
                   mpc, session, loc, result, issued,
                   servers_data, lastDone, rendered, filterVars>>

\* no except clause: the exception leaves get_server_info
Propagates(i) ==
    /\ tpc' = [tpc EXCEPT ![i] = "done"]
    /\ result' = [result EXCEPT ![i] = Raised]
    /\ loc' = [loc EXCEPT ![i] = NoLocals]
    /\ session' = session
    /\ lastDone' = [lastDone EXCEPT ![servers_list[i]] = i]

\* the except clause: print, return (server_identifier, None); the session,
\* when one was opened, is left as it is
Except(i) ==
    /\ tpc' = [tpc EXCEPT ![i] = "done"]
    /\ result' = [result EXCEPT ![i] = None]
    /\ loc' = [loc EXCEPT ![i] = NoLocals]
    /\ session' = session
    /\ lastDone' = [lastDone EXCEPT ![servers_list[i]] = i]

\* Server(server_identifier): ssh.connect succeeds
Connect(i) ==
    /\ tpc[i] = "connect"
    /\ i \notin refused
    /\ ~Stuck(i)
    /\ issued' = [issued EXCEPT ![i] = Append(@, "connect")]
    /\ session' = [session EXCEPT ![i] = "open"]
    /\ tpc' = [tpc EXCEPT ![i] = "hostname"]
    /\ UNCHANGED <<servers_list, refused, env, hangs, sheet,
                   mpc, loc, result, servers_data, lastDone,
                   rendered, filterVars>>

\* Server(server_identifier): ssh.connect raises
ConnectRaises(i) ==
    /\ tpc[i] = "connect"
    /\ i \in refused
    /\ ~Stuck(i)
    /\ issued' = [issued EXCEPT ![i] = Append(@, "connect")]
    /\ Except(i)
    /\ UNCHANGED <<servers_list, refused, env, hangs, sheet,
                   mpc, servers_data, rendered, filterVars>>

\* the two CPU commands sent in the other order
SwapsCpuCommands(i) ==
    CASE tpc[i] = "hostname" -> CmdHostname
      [] tpc[i] = "gpu" -> CmdGpu
      [] tpc[i] = "nproc" -> CmdLscpu
      [] tpc[i] = "lscpu" -> CmdNproc
      [] tpc[i] = "free" -> CmdFree
      [] tpc[i] = "df" -> CmdDf
      [] tpc[i] = "blkid" -> CmdBlkid(Head(loc[i].rows)[1])

\* the command the call is about to send
NextCommand(i) ==
    CASE tpc[i] = "hostname" -> CmdHostname
      [] tpc[i] = "gpu" -> CmdGpu
      [] tpc[i] = "nproc" -> CmdNproc
      [] tpc[i] = "lscpu" -> CmdLscpu
      [] tpc[i] = "free" -> CmdFree
      [] tpc[i] = "df" -> CmdDf
      [] tpc[i] = "blkid" -> CmdBlkid(Head(loc[i].rows)[1])

\* server.exec_command(...) raises
ExecRaises(i) ==
    /\ tpc[i] \in ExecPcs
    /\ ~Stuck(i)
    /\ issued' = [issued EXCEPT ![i] = Append(@, NextCommand(i))]
    /\ Except(i)
    /\ UNCHANGED <<servers_list, refused, env, hangs, sheet,
                   mpc, servers_data, rendered, filterVars>>

\* an exec_command that returns: the command is logged, the rest is local
Exec(i, at, next) ==
    /\ tpc[i] = at
    /\ ~Stuck(i)
    /\ issued' = [issued EXCEPT ![i] = Append(@, NextCommand(i))]
    /\ tpc' = [tpc EXCEPT ![i] = next]
    /\ UNCHANGED <<servers_list, refused, env, hangs, sheet,
                   mpc, session, result, servers_data,
                   lastDone, rendered, filterVars>>

\* hostname = server.exec_command("hostname")
Hostname(i) ==
    /\ Exec(i, "hostname", "gpu")
    /\ loc' = [loc EXCEPT ![i].hostname = ExecResult(HostnameOut(servers_list[i]))]

\* gpu_info = server.exec_command("nvidia-smi ...") and the parsing loop
GpuInfo(i) ==
    /\ tpc[i] = "gpu"
    /\ ~Stuck(i)
    /\ issued' = [issued EXCEPT ![i] = Append(@, CmdGpu)]
    /\ \E stdout \in env.gpu :
          LET gpu_info == ExecResult(stdout)
          IN  IF GpuParseFails(gpu_info)
              THEN Except(i)
              ELSE /\ loc' = [loc EXCEPT ![i].gpus = ParseGpus(gpu_info)]
                   /\ tpc' = [tpc EXCEPT ![i] = "nproc"]
                   /\ UNCHANGED <<session, result, lastDone>>
    /\ UNCHANGED <<servers_list, refused, env, hangs, sheet,
                   mpc, servers_data, rendered, filterVars>>

\* cpu_count = server.exec_command("nproc")
CpuCount(i) ==
    /\ Exec(i, "nproc", "lscpu")
    /\ loc' = [loc EXCEPT ![i].cpu_count = ExecResult(NprocOut)]

\* cpu_type = server.exec_command("lscpu | ...")
CpuType(i) ==
    /\ Exec(i, "lscpu", "free")
    /\ loc' = [loc EXCEPT ![i].cpu_type = ExecResult(LscpuOut)]

\* ram_info = server.exec_command("free -h | ...")
RamInfo(i) ==
    /\ Exec(i, "free", "df")
    /\ loc' = [loc EXCEPT ![i].ram_info = ExecResult(FreeOut)]

\* df_output = server.exec_command("df -h"); the loop runs up to the first
\* row that passes the filter
DfOutput(i) ==
    /\ \E stdout \in env.df :
          LET rows == RowsToQuery(CandidateLines(ExecResult(stdout)))
          IN  /\ Exec(i, "df", IF Len(rows) = 0 THEN "close" ELSE "blkid")
              /\ loc' = [loc EXCEPT ![i].rows = rows]

\* uuid = server.exec_command("sudo blkid ...") for the row that passed the
\* filter, the append, and the loop up to the next such row
Blkid(i) ==
    LET parts == Head(loc[i].rows)
        uuid == ExecResult(BlkidOut(parts[1]))
        fact == [device |-> parts[1], mount |-> parts[6], uuid |-> Strip(uuid),
                 total |-> parts[2], available |-> parts[4]]
        rows == Tail(loc[i].rows)
    IN  /\ Exec(i, "blkid", IF Len(rows) = 0 THEN "close" ELSE "blkid")
        /\ loc' = [loc EXCEPT ![i].rows = rows,
                              ![i].storage_info = Append(@, fact)]

\* server.close(), then return server_identifier, {...}: the future of the
\* call is finished
CloseAndReturn(i) ==
    /\ tpc[i] = "close"
    /\ issued' = [issued EXCEPT ![i] = Append(@, "close")]
    /\ session' = [session EXCEPT ![i] = "closed"]
    /\ result' = [result EXCEPT ![i] = Inventory(loc[i])]
    /\ loc' = [loc EXCEPT ![i] = NoLocals]
    /\ tpc' = [tpc EXCEPT ![i] = "done"]
    /\ lastDone' = [lastDone EXCEPT ![servers_list[i]] = i]
    /\ UNCHANGED <<servers_list, refused, env, hangs, sheet,
                   mpc, servers_data, rendered, filterVars>>

Next ==
    \/ Submit
    \/ AsCompleted
    \/ \E i \in Calls : Consume(i)
    \/ ExitWith
    \/ CreateSpreadsheet
    \/ \E i \in Calls : Start(i)
    \/ \E i \in Calls : Connect(i)
    \/ \E i \in Calls : ConnectRaises(i)
    \/ \E i \in Calls : ExecRaises(i)
    \/ \E i \in Calls : Hostname(i)
    \/ \E i \in Calls : GpuInfo(i)
    \/ \E i \in Calls : CpuCount(i)
    \/ \E i \in Calls : CpuType(i)
    \/ \E i \in Calls : RamInfo(i)
    \/ \E i \in Calls : DfOutput(i)
    \/ \E i \in Calls : Blkid(i)
    \/ \E i \in Calls : CloseAndReturn(i)

Spec == Init /\ [][Next]_vars

SpecFleet == InitFleet /\ [][Next]_vars

-----------------------------------------------------------------------------
(* Hosts that hang, and the scheduling of the threads. *)

\* where a call may hang: in ssh.connect or in the exec_command of df -h
HangPoints == {"connect", "df"}

\* short lists of reachable hosts with any of them hanging, the first one
\* in its connect or its df -h, the others in their connect; fleets around
\* the pool size, all unreachable, of which at least max_workers - 1 hang;
\* a host on its own has storage rows to look up, the others have none
InitHang ==
    /\ \/ /\ servers_list \in ShortLists
          /\ refused = {}
          /\ hangs \in SUBSET ((1 .. Len(servers_list)) \X HangPoints)
          /\ \A h \in hangs : h[2] = "df" => h[1] = 1
          /\ \A h \in hangs, g \in hangs : h[1] = g[1] => h = g
       \/ /\ servers_list \in FleetLists
          /\ refused = 1 .. Len(servers_list)
          /\ \E hung \in SUBSET (1 .. Len(servers_list)) :
                /\ Cardinality(hung) >= max_workers - 1
                /\ hangs = hung \X {"connect"}
    /\ \E df \in DfOutputs :
          /\ (df = "") = (Len(servers_list) /= 1)
          /\ env = [FleetTexts EXCEPT !.gpu = {""}, !.df = {df}]
    /\ InitCalls
    /\ IdleFilter

\* the steps of the main thread
MainStep ==
    \/ Submit
    \/ AsCompleted
    \/ \E i \in Calls : Consume(i)
    \/ ExitWith
    \/ CreateSpreadsheet

\* the steps of the worker thread that runs call i
CallStep(i) ==
    /\ i \in Calls
    /\ \/ Start(i) \/ Connect(i) \/ ConnectRaises(i) \/ ExecRaises(i)
       \/ Hostname(i) \/ GpuInfo(i) \/ CpuCount(i) \/ CpuType(i)
       \/ RamInfo(i) \/ DfOutput(i) \/ Blkid(i) \/ CloseAndReturn(i)

\* every thread that can take a step eventually takes one
Fairness ==
    /\ WF_vars(MainStep)
    /\ \A i \in 1 .. max_workers + FleetExcess : WF_vars(CallStep(i))

SpecHang == InitHang /\ [][Next]_vars /\ Fairness

\* the short host lists, no host hanging, under the same scheduling
SpecFair == Init /\ [][Next]_vars /\ Fairness

-----------------------------------------------------------------------------
(* The parsing of a df output on its own. *)

DfDevices ==
    { "/dev/sda1", "/dev/sdb", "/dev/loop0", "/dev/nvme0n1p1", "/dev/nvme0n1",
      "/dev/sdp1", "/dev/sdp", "/dev/mapper/vg-backup2", "tmpfs", "dev/sdq" }

DfSizes == { "500G", "1.8T", "2G", "3G", "1G", "5G", "6G", "10G", "15G", "512M", "4.5G", "2T" }

DfMounts == { "/data", "/mnt", "/", "/snap/x", "/boot/efi", "/boot", "/snapshots" }

\* first lines: the header df prints, and a line that would pass the filter
DfFirstLines == { DfHeader, "/dev/sdz 9T 1T 8T 12% /first" }

\* the fields of a row: five (no mount), six, or seven (a mount with a space)
DfRows ==
    { <<"/dev/sda1", "500G", "100G", "400G", "20%", "/data">>,
      <<"/dev/loop0", "2G", "1G", "1G", "50%", "/snap/x">>,
      <<"/dev/sdb", "3G", "1G", "2G", "33%", "/mnt">> }
    \cup { <<d, z, "1G", "1G", "50%">> : d \in DfDevices, z \in DfSizes }
    \cup { <<d, z, "1G", "1G", "50%", m>> : d \in DfDevices, z \in DfSizes, m \in DfMounts }
    \cup { <<d, z, "1G", "1G", "50%", m, "disk">> : d \in {"/dev/sdb"}, z \in {"500G"}, m \in DfMounts }

InitFilter ==
    /\ servers_list = <<>>
    /\ refused = {}
    /\ env = FleetTexts
    /\ NoHangs
    /\ InitCalls
    /\ fpc = "input"
    /\ df_kept = <<>>
    /\ \E first \in DfFirstLines, row \in DfRows :
          /\ df_row = row
          /\ df_text = ExecResult(first \o "\n" \o Join(row) \o "\n")

\* the for loop over the df output, each candidate line reduced to whether
\* the loop body appends a StorageFact for it
ParseDf ==
    /\ fpc = "input"
    /\ df_kept' = [n \in 1 .. Len(CandidateLines(df_text)) |->
                      KeepsLine(CandidateLines(df_text)[n])]
    /\ fpc' = "parsed"
    /\ UNCHANGED <<dispatchVars, df_text, df_row>>

NextFilter == ParseDf

SpecFilter == InitFilter /\ [][NextFilter]_vars

-----------------------------------------------------------------------------
(* One host whose GPU query prints a text given line by line. *)

\* most lines of a GPU query output
MaxGpuLines == 3

GpuLineTexts ==
    { "NVIDIA A100, 40960 MiB", " Tesla T4 ,15360 MiB ", "", "  ",
      "Tesla K80", "A, B, C" }

GpuScripts == UNION { [1 .. n -> GpuLineTexts] : n \in 0 .. MaxGpuLines }

\* standard output of a command that prints these lines
RECURSIVE PrintLines(_)
PrintLines(lines) ==
    IF Len(lines) = 0 THEN ""
    ELSE Head(lines) \o "\n" \o PrintLines(Tail(lines))

InitGpu ==
    /\ servers_list = <<HostName(1)>>
    /\ refused \in SUBSET {1}
    /\ \E lines \in GpuScripts :
          env = [FleetTexts EXCEPT !.gpu = {PrintLines(lines)}, !.gpu_lines = lines]
    /\ NoHangs
    /\ InitCalls
    /\ IdleFilter

SpecGpu == InitGpu /\ [][Next]_vars

-----------------------------------------------------------------------------
(* One host whose df -h prints a table given row by row. *)

\* most rows of a df table below its header
MaxDfRows == 2

DfTableRows ==
    { <<"/dev/sda1", "500G", "100G", "400G", "20%", "/data">>,
      <<"/dev/sdc", "15G", "1G", "14G", "7%", "/scratch">>,
      <<"/dev/loop0", "2G", "1G", "1G", "50%", "/snap/x">>,
      <<"/dev/nvme0n1p1", "500G", "1G", "1G", "50%", "/mnt">>,
      <<"/dev/sdb", "3G", "1G", "2G", "33%", "/mnt">>,
      <<"tmpfs", "64G", "0", "64G", "0%">> }

DfTables == UNION { [1 .. n -> DfTableRows] : n \in 0 .. MaxDfRows }

\* standard output of df -h for a table
PrintTable(rows) ==
    PrintLines(<<DfHeader>> \o [n \in 1 .. Len(rows) |-> Join(rows[n])])

InitDf ==
    /\ servers_list = <<HostName(1)>>
    /\ refused \in SUBSET {1}
    /\ \E rows \in DfTables :
          env = [FleetTexts EXCEPT !.df = {PrintTable(rows)}, !.df_rows = rows]
    /\ NoHangs
    /\ InitCalls
    /\ IdleFilter

SpecDf == InitDf /\ [][Next]_vars

-----------------------------------------------------------------------------
(* Fleets on which a command prints the same text whenever it is run. *)

TwoGpus == "NVIDIA A100, 40960 MiB\nNVIDIA A100, 40960 MiB\n"

InitSameTexts ==
    /\ servers_list \in ShortLists
    /\ refused \in SUBSET (1 .. Len(servers_list))
    /\ \E gpu \in {"", TwoGpus}, df \in DfOutputs :
          env = [FleetTexts EXCEPT !.gpu = {gpu}, !.df = {df}]
    /\ NoHangs
    /\ InitCalls
    /\ IdleFilter

SpecSameTexts == InitSameTexts /\ [][Next]_vars

-----------------------------------------------------------------------------
(* Properties of the dispatcher. *)

\* the as_completed loop has finished and the with block was left
Finished == mpc \in {"render", "done"}

NoDuplicates ==
    \A i \in Calls, j \in Calls : servers_list[i] = servers_list[j] => i = j

\* the call returned an inventory
Succeeded(i) == result[i] \notin {Pending, None, Raised}

\* positions of the items of servers_data with key h
Entries(h) == { j \in 1 .. Len(servers_data) : servers_data[j].key = h }

ReturnedPcs == {"done", "yielded"}

ConnectAttempts(i) == Cardinality({ n \in 1 .. Len(issued[i]) : issued[i][n] = "connect" })

\* what belongs to call j alone
CallState(j) == <<tpc[j], session[j], loc[j], result[j], issued[j]>>

\* C1: after the dispatch loop, for a host list without duplicates, every
\* submitted host has exactly one entry in servers_data, holding its
\* inventory or an explicit failure marker.
C1_EveryHostHasOneEntry ==
    (Finished /\ NoDuplicates) =>
        \A i \in Calls :
            /\ Cardinality(Entries(servers_list[i])) = 1
            /\ DictGet(servers_data, servers_list[i]) = result[i]

\* C2: a call of get_server_info that opened its session has closed it by
\* the time it returns, on the success path and on every failure path.
C2_SessionClosedOnReturn ==
    \A i \in Calls :
        (tpc[i] \in ReturnedPcs /\ session[i] /= "none") => session[i] = "closed"

\* C3: a failing host does not cancel, block or change the outcome of any
\* other host: main never crashes; the step in which a call fails leaves the
\* state of every other call, the position of main and servers_data as they
\* were; and after the loop every call that returned an inventory has its
\* host recorded in servers_data with an inventory returned for that host.
C3_FailuresAreIsolated ==
    /\ [](mpc /= "crashed")
    /\ [][\A i \in Calls :
            (result[i] = Pending /\ result'[i] \in {None, Raised}) =>
                /\ \A j \in Calls \ {i} : CallState(j)' = CallState(j)
                /\ mpc' = mpc
                /\ servers_data' = servers_data]_vars
    /\ [](Finished =>
          \A i \in Calls :
              Succeeded(i) =>
                  /\ DictHas(servers_data, servers_list[i])
                  /\ \E j \in Calls :
                        /\ servers_list[j] = servers_list[i]
                        /\ Succeeded(j)
                        /\ DictGet(servers_data, servers_list[i]) = result[j])

\* a run with a failed host and a successful other host, which is recorded
C3_Witness ==
    /\ Finished
    /\ \E i \in Calls, j \in Calls :
          /\ result[i] = None
          /\ servers_list[i] /= servers_list[j]
          /\ Succeeded(j)
          /\ DictHas(servers_data, servers_list[j])
          /\ DictGet(servers_data, servers_list[j]) = result[j]

C5_OnlySuccessfulHostsAreKeys ==
    /\ \A n \in 1 .. Len(servers_data) :
          \E i \in Calls :
              /\ tpc[i] = "yielded"
              /\ servers_list[i] = servers_data[n].key
              /\ Succeeded(i)
              /\ servers_data[n].value = result[i]
              /\ DOMAIN servers_data[n].value = {"hostname", "gpu", "cpu", "ram", "storage"}
    /\ Finished =>
          \A h \in Range(servers_list) :
              DictHas(servers_data, h)
                  <=> (\E i \in Calls : servers_list[i] = h /\ Succeeded(i))
    /\ mpc = "done" => rendered = <<servers_data>>

\* a rendered run with a failed host that has no key and a successful host
\* without GPUs and storage that has one
C5_Witness ==
    /\ mpc = "done"
    /\ Len(rendered) = 1
    /\ \E i \in Calls, j \in Calls :
          /\ result[i] = None
          /\ ~DictHas(rendered[1], servers_list[i])
          /\ Succeeded(j)
          /\ result[j].gpu = <<>>
          /\ result[j].storage = <<>>
          /\ DictHas(rendered[1], servers_list[j])

\* C6: at most max_workers calls of get_server_info are in flight, whatever
\* the length of the host list.
C6_InFlightBounded == Cardinality(InFlight) <= max_workers

\* the pool is full and a further host waits in the queue
C6_Witness ==
    /\ Cardinality(InFlight) = max_workers
    /\ \E i \in Calls : tpc[i] = "queued"

\* C7: after the run an identifier that occurs more than once in the host
\* list has exactly one entry in servers_data, whose value is the outcome of
\* the duplicate collection that completed last.
C7_LastCompletedDuplicateWins ==
    Finished =>
        \A h \in Range(servers_list) :
            Cardinality({ i \in Calls : servers_list[i] = h }) > 1 =>
                /\ Cardinality(Entries(h)) = 1
                /\ DictGet(servers_data, h) = result[lastDone[h]]

\* C8: every exception of a collection is caught in get_server_info and
\* becomes the pair (identifier, None): no future holds an exception, main
\* never crashes in future.result(), a call that did not reach its return
\* statement returned None, and every call makes exactly one session-open
\* attempt.
C8_ErrorsCaughtNothingRetried ==
    /\ mpc /= "crashed"
    /\ \A i \in Calls :
          /\ ConnectAttempts(i) <= 1
          /\ tpc[i] \in ReturnedPcs =>
                /\ result[i] \notin {Raised, Pending}
                /\ ConnectAttempts(i) = 1
                /\ issued[i][Len(issued[i])] /= "close" => result[i] = None

\* a finished run with a host that failed in connect and a host that failed
\* in a later command
C8_Witness ==
    /\ mpc = "done"
    /\ \E i \in Calls, j \in Calls :
          /\ result[i] = None /\ issued[i] = <<"connect">>
          /\ result[j] = None /\ Len(issued[j]) > 1

-----------------------------------------------------------------------------
(* Properties of the storage filter. The sets below classify the devices,  *)
(* sizes and mounts of DfDevices, DfSizes and DfMounts by hand.            *)

BlockDevices ==
    { "/dev/sda1", "/dev/sdb", "/dev/loop0", "/dev/nvme0n1p1", "/dev/nvme0n1",
      "/dev/sdp1", "/dev/sdp", "/dev/mapper/vg-backup2" }

LoopDevices == { "/dev/loop0" }

\* devices that end in a "p" followed by digits
PatternDevices == { "/dev/nvme0n1p1", "/dev/sdp1", "/dev/mapper/vg-backup2" }

\* devices that are a numbered partition of a base device
NumberedPartitions == { "/dev/sda1", "/dev/nvme0n1p1", "/dev/sdp1" }

SnapMounts == { "/snap/x" }

BootMounts == { "/boot/efi" }

TeraOrGigaSizes == { "500G", "1.8T", "2G", "3G", "1G", "5G", "6G", "10G", "15G", "4.5G", "2T" }

SmallPrefixSizes == { "1G", "2G", "3G", "5G" }

\* C9: the first line of the df output is never considered, and a row with
\* at least six fields is kept exactly if all seven conditions hold; the
\* rows named in the claim are kept or excluded as it says and sizes 10G and
\* 15G pass the size rules.
C9_SevenConditionFilter ==
    fpc = "parsed" =>
        /\ Len(df_kept) = 1
        /\ Len(df_row) >= 6 =>
              (df_kept[1] <=>
                  /\ df_row[1] \in BlockDevices
                  /\ df_row[1] \notin LoopDevices
                  /\ df_row[1] \notin PatternDevices
                  /\ df_row[6] \notin SnapMounts
                  /\ df_row[6] \notin BootMounts
                  /\ df_row[2] \in TeraOrGigaSizes
                  /\ df_row[2] \notin SmallPrefixSizes)
        /\ df_row = <<"/dev/sda1", "500G", "100G", "400G", "20%", "/data">> => df_kept[1]
        /\ df_row = <<"/dev/loop0", "2G", "1G", "1G", "50%", "/snap/x">> => ~df_kept[1]
        /\ df_row = <<"/dev/sdb", "3G", "1G", "2G", "33%", "/mnt">> => ~df_kept[1]
        /\ (/\ Len(df_row) >= 6
            /\ df_row[1] = "/dev/sdb"
            /\ df_row[6] = "/mnt"
            /\ df_row[2] \in {"10G", "15G"}) => df_kept[1]

\* the row /dev/sda1 500G ... /data was parsed after a first line that would
\* itself pass the filter, and only the row was kept
C9_Witness ==
    /\ fpc = "parsed"
    /\ df_row = <<"/dev/sda1", "500G", "100G", "400G", "20%", "/data">>
    /\ StartsWith(df_text, "/dev/sdz 9T")
    /\ df_kept = <<TRUE>>

-----------------------------------------------------------------------------
(* Properties of the GPU parsing. *)

\* lines with exactly one comma, and the entry each one stands for
GpuFact(line) ==
    CASE line = "NVIDIA A100, 40960 MiB" -> [type |-> "NVIDIA A100", vram |-> "40960 MiB"]
      [] line = " Tesla T4 ,15360 MiB " -> [type |-> "Tesla T4", vram |-> "15360 MiB"]

OneCommaLines == { "NVIDIA A100, 40960 MiB", " Tesla T4 ,15360 MiB " }

\* lines that are empty once trimmed
BlankLines == { "", "  " }

\* lines without a comma or with two
OtherLines == { "Tesla K80", "A, B, C" }

HasOneComma(line) == line \in OneCommaLines

\* the gpu list the printed lines stand for
ExpectedGpus ==
    LET good == SelectSeq(env.gpu_lines, HasOneComma)
    IN  [k \in 1 .. Len(good) |-> GpuFact(good[k])]

SomeOtherLine == \E k \in 1 .. Len(env.gpu_lines) : env.gpu_lines[k] \in OtherLines

PastGpu == {"nproc", "lscpu", "free", "df", "blkid", "close"}

GpuQueried(i) == Len(issued[i]) >= 3 /\ issued[i][3] = CmdGpu

\* C11: when the GPU query prints k lines with exactly one comma each (and
\* blank lines, which are skipped) the gpu list has exactly k entries, in
\* line order, each with trimmed name and memory; an output without such
\* lines gives the empty list and the host still succeeds; a non-blank line
\* that does not split into exactly two fields makes the host a failure:
\* its outcome is None and nothing of it reaches servers_data.
C11_GpuLinesParsed ==
    \A i \in Calls :
        /\ tpc[i] \in PastGpu => ~SomeOtherLine /\ loc[i].gpus = ExpectedGpus
        /\ Succeeded(i) => ~SomeOtherLine /\ result[i].gpu = ExpectedGpus
        /\ (SomeOtherLine /\ GpuQueried(i)) =>
              /\ tpc[i] \in ReturnedPcs
              /\ result[i] = None
              /\ ~DictHas(servers_data, servers_list[i])

C11_Witness ==
    /\ env.gpu_lines = <<"NVIDIA A100, 40960 MiB", "NVIDIA A100, 40960 MiB">>
    /\ Succeeded(1)
    /\ result[1].gpu = <<[type |-> "NVIDIA A100", vram |-> "40960 MiB"],
                         [type |-> "NVIDIA A100", vram |-> "40960 MiB"]>>
    /\ DictHas(servers_data, servers_list[1])

-----------------------------------------------------------------------------
(* Properties of the renderer. *)

Max3(a, b, c) == CHOOSE m \in {a, b, c} : a <= m /\ b <= m /\ c <= m

\* the rows an item has cells in
RowsWritten(item) ==
    item.id_rows \cup item.gpu_rows \cup item.cpu_rows \cup item.storage_rows

\* C12: for a host with g GPU entries and s storage entries the worksheet
\* has exactly max(g, s, 1) rows of that host, and the row counter advances
\* by max(g, s, 1) from the host's first row to the next host's first row.
C12_RowsPerHost ==
    \A k \in 1 .. Len(sheet) :
        LET data == DictGet(servers_data, sheet[k].server_id)
            rows == Max3(Len(data.gpu), Len(data.storage), 1)
        IN  /\ sheet[k].next - sheet[k].first = rows
            /\ Cardinality(RowsWritten(sheet[k])) = rows

-----------------------------------------------------------------------------
(* Properties of the end of main. *)

\* C13: create_spreadsheet is called at most once, never before every one
\* of the N calls has produced its outcome and the outcome was consumed,
\* with the servers_data main ends with; main reaches its end through that
\* call whatever the outcomes were, and never leaves by an exception.
C13_RenderedOnceAfterAll ==
    /\ Len(rendered) <= 1
    /\ mpc /= "crashed"
    /\ (mpc = "done") = (Len(rendered) = 1)
    /\ Len(rendered) = 1 =>
          /\ \A i \in Calls : tpc[i] = "yielded" /\ result[i] /= Pending
          /\ rendered[1] = servers_data

\* a run in which one host failed and another succeeded
C13_Witness ==
    /\ mpc = "done"
    /\ Len(rendered) = 1
    /\ \E i \in Calls, j \in Calls : result[i] = None /\ Succeeded(j)

-----------------------------------------------------------------------------
(* Properties of repeated runs. *)

A100 == [type |-> "NVIDIA A100", vram |-> "40960 MiB"]

\* the inventory of host h on a fleet whose texts are env.gpu and env.df
ExpectedInventory(h) ==
    [hostname |-> h,
     gpu |-> IF env.gpu = {""} THEN <<>> ELSE <<A100, A100>>,
     cpu |-> [count |-> "64", type |-> "AMD EPYC 7742 64-Core Processor"],
     ram |-> "503Gi",
     storage |-> IF env.df = {""} THEN <<>>
                 ELSE <<[device |-> "/dev/sdb", mount |-> "/mnt",
                         uuid |-> "uuid-of-/dev/sdb", total |-> "1.8T",
                         available |-> "800G"],
                        [device |-> "/dev/sdc", mount |-> "/scratch",
                         uuid |-> "uuid-of-/dev/sdc", total |-> "15G",
                         available |-> "14G"]>>]

AllSucceeded == \A i \in Calls : Succeeded(i)

\* C14: when every host is reachable and every command returns its text,
\* the report main ends with is a function of the host list and the texts
\* alone: its keys are the hosts of the list, each once, and each inventory
\* is the one the texts determine, whatever the interleaving of the workers
\* and the order of completion were; so two such runs give equal reports.
C14_ReportDeterminedByTexts ==
    /\ \A j \in 1 .. Len(servers_data) :
          servers_data[j].value = ExpectedInventory(servers_data[j].key)
    /\ (Finished /\ AllSucceeded) =>
          /\ Range(DictKeys(servers_data)) = Range(servers_list)
          /\ Len(servers_data) = Cardinality(Range(servers_list))

\* a finished run in which the later host of the list was stored first
C14_Witness ==
    /\ Finished /\ AllSucceeded
    /\ Len(servers_data) >= 2
    /\ servers_data[1].key = servers_list[2]
    /\ env.gpu = {TwoGpus}
    /\ Len(servers_data[1].value.storage) = 2

-----------------------------------------------------------------------------
(* Properties of the order of a host's commands. *)

FixedOrder ==
    <<"connect", "hostname",
      "nvidia-smi --query-gpu=name,memory.total --format=csv,noheader",
      "nproc", "lscpu | grep 'Model name' | cut -f 2 -d ':'",
      "free -h | awk '/^Mem:/ {print $2}'", "df -h">>

IsUuidQuery(c) == StartsWith(c, "sudo blkid -s UUID -o value ")

\* how many interactions a call has behind it at each position
LogLength(pc) ==
    CASE pc \in {"unsubmitted", "queued", "connect"} -> {0}
      [] pc = "hostname" -> {1}
      [] pc = "gpu" -> {2}
      [] pc = "nproc" -> {3}
      [] pc = "lscpu" -> {4}
      [] pc = "free" -> {5}
      [] pc = "df" -> {6}
      [] OTHER -> Nat

\* the log of call i follows the fixed order
InFixedOrder(i) ==
    /\ Len(issued[i]) \in LogLength(tpc[i])
    /\ \A n \in 1 .. Len(issued[i]) :
          /\ n <= 7 => issued[i][n] = FixedOrder[n]
          /\ n > 7 => \/ IsUuidQuery(issued[i][n])
                       \/ (issued[i][n] = "close" /\ n = Len(issued[i]))
    /\ session[i] = "closed" => issued[i][Len(issued[i])] = "close"
    /\ tpc[i] \in {"blkid", "close"} => Len(issued[i]) >= 7

\* a step of call i sends at most one command, after all it sent before,
\* and none once the call has returned
OneAtATime(i) ==
    /\ \/ issued'[i] = issued[i]
       \/ /\ Len(issued'[i]) = Len(issued[i]) + 1
          /\ SubSeq(issued'[i], 1, Len(issued[i])) = issued[i]
    /\ tpc[i] \in ReturnedPcs => issued'[i] = issued[i]

\* C15: within one call the interactions follow the fixed order: open,
\* hostname, GPU query, CPU count, CPU type, RAM, df, then UUID queries,
\* then close; each is sent when the one before has returned, nothing is
\* sent before the open, after the close or after the call returned.
C15_CommandsInFixedOrder ==
    /\ [](\A i \in Calls : InFixedOrder(i))
    /\ [][\A i \in Calls : OneAtATime(i)]_vars

\* a successful call with two UUID queries between df and close
C15_Witness ==
    \E i \in Calls :
        /\ Succeeded(i)
        /\ Len(issued[i]) = 10
        /\ issued[i][7] = "df -h"
        /\ IsUuidQuery(issued[i][8]) /\ IsUuidQuery(issued[i][9])
        /\ issued[i][10] = "close"

-----------------------------------------------------------------------------
(* Properties of the UUID queries. *)

\* the rows of DfTableRows that pass the storage filter
SurvivingRows ==
    { <<"/dev/sda1", "500G", "100G", "400G", "20%", "/data">>,
      <<"/dev/sdc", "15G", "1G", "14G", "7%", "/scratch">> }

Survives(row) == row \in SurvivingRows

\* the storage list the printed table stands for
ExpectedStorage ==
    LET rows == SelectSeq(env.df_rows, Survives)
    IN  [k \in 1 .. Len(rows) |->
            [device |-> rows[k][1], mount |-> rows[k][6],
             uuid |-> "uuid-of-" \o rows[k][1],
             total |-> rows[k][2], available |-> rows[k][4]]]

\* the UUID queries the printed table calls for
ExpectedQueries ==
    [k \in 1 .. Len(ExpectedStorage) |->
        "sudo blkid -s UUID -o value " \o ExpectedStorage[k].device]

UuidQueries(i) == SelectSeq(issued[i], IsUuidQuery)

\* C16: for a df table of r rows of which k pass the filter, the UUID
\* queries a call has sent are the first of the k queries for the passing
\* rows, in row order, and none is for an excluded row; a call that
\* succeeded sent exactly these k queries, its storage list holds for each
\* passing row the trimmed answer to the query for that row's device, and
\* it sent 6 + k commands between open and close.
C16_OneUuidQueryPerKeptRow ==
    \A i \in Calls :
        LET sent == Len(UuidQueries(i))
        IN  /\ sent <= Len(ExpectedQueries)
            /\ UuidQueries(i) = SubSeq(ExpectedQueries, 1, sent)
            /\ tpc[i] \in {"blkid", "close"} =>
                  loc[i].storage_info = SubSeq(ExpectedStorage, 1, sent)
            /\ Succeeded(i) =>
                  /\ UuidQueries(i) = ExpectedQueries
                  /\ result[i].storage = ExpectedStorage
                  /\ Len(issued[i]) = 1 + (6 + Len(ExpectedQueries)) + 1

\* an excluded row followed by a passing one: one query, seven commands
C16_Witness ==
    /\ env.df_rows = << <<"/dev/nvme0n1p1", "500G", "1G", "1G", "50%", "/mnt">>,
                        <<"/dev/sdc", "15G", "1G", "14G", "7%", "/scratch">> >>
    /\ Succeeded(1)
    /\ UuidQueries(1) = <<"sudo blkid -s UUID -o value /dev/sdc">>
    /\ result[1].storage[1].uuid = "uuid-of-/dev/sdc"
    /\ Len(issued[1]) = 9

-----------------------------------------------------------------------------
(* Properties of hanging hosts and of termination. *)

\* the calls that are in a connect or a command that never returns
StuckCalls == { i \in Calls : Stuck(i) }

\* the calls whose host hangs at some point
Hanging == { h[1] : h \in hangs }

\* every call whose host does not hang has produced its outcome, the main
\* thread consumed it, and stored it when it is an inventory
LiveOnesRecorded ==
    \A i \in Calls \ Hanging :
        /\ tpc[i] = "yielded"
        /\ Succeeded(i) => DictHas(servers_data, servers_list[i])

\* C17 as stated: when fewer than max_workers hosts hang every other host is
\* eventually recorded, and the run fails to complete only when every
\* worker (all max_workers of the pool, or the worker of every call) is
\* stuck for ever.
C17_StalledOnlyWhenAllWorkersStuck ==
    /\ Cardinality(Hanging) < max_workers => <>[]LiveOnesRecorded
    /\ \/ <>Finished
       \/ <>[](Cardinality(StuckCalls) = max_workers \/ StuckCalls = Calls)

\* C17, amended: when fewer than max_workers hosts hang every other host is
\* eventually recorded; a single call that is stuck keeps the main thread
\* in the as_completed loop, so the report is never rendered.
C17_OneHangStallsTheRun ==
    /\ Cardinality(Hanging) < max_workers => <>[]LiveOnesRecorded
    /\ [](StuckCalls /= {} => ~Finished)

\* one call stuck, another host recorded, the main thread still in its loop
C17_Witness ==
    /\ StuckCalls /= {}
    /\ \E i \in Calls \ Hanging : Succeeded(i) /\ tpc[i] = "yielded"
    /\ LiveOnesRecorded
    /\ mpc = "as_completed"

\* C20: when no connect and no command hangs, main eventually has consumed
\* the outcome of every call, has rendered the report once and is at its
\* end, for every host list, the empty one included.
C20_MainTerminates ==
    <>[](/\ mpc = "done"
         /\ \A i \in Calls : tpc[i] = "yielded"
         /\ Len(rendered) = 1)

\* the end of a run over a full list, with a failed host among the hosts
C20_Witness ==
    /\ mpc = "done"
    /\ Len(servers_list) >= 2
    /\ \A i \in Calls : tpc[i] = "yielded"
    /\ \E i \in Calls : i \in refused
    /\ \E i \in Calls : Succeeded(i)

-----------------------------------------------------------------------------
(* Properties of the writes to servers_data. *)

\* the step consumes the outcome of call i
Consumes(i) == tpc[i] = "done" /\ tpc'[i] = "yielded"

\* hosts are submitted in the order of the list
SubmittedInListOrder ==
    \A i \in Calls, j \in Calls :
        (i < j /\ tpc[j] /= "unsubmitted") => tpc[i] /= "unsubmitted"

\* the keys after the outcome of call i was consumed: a host that succeeds
\* for the first time goes behind all hosts consumed before it
KeysInConsumptionOrder(i) ==
    IF Succeeded(i) /\ ~DictHas(servers_data, servers_list[i])
    THEN DictKeys(servers_data') = Append(DictKeys(servers_data), servers_list[i])
    ELSE DictKeys(servers_data') = DictKeys(servers_data)

\* C18: the keys of servers_data stand in the order in which main consumed
\* the hosts' successful outcomes from as_completed (each consumed success
\* of a new host is appended behind all earlier ones, nothing else changes
\* the order), which need not be the order of the host list; the calls are
\* submitted in the order of the host list.
C18_InsertionFollowsConsumption ==
    /\ []SubmittedInListOrder
    /\ [][/\ \A i \in Calls : Consumes(i) => KeysInConsumptionOrder(i)
          /\ (\A i \in Calls : ~Consumes(i)) => servers_data' = servers_data]_vars

\* the second host of the list stands before the first
C18_Witness ==
    /\ Len(servers_data) = 2
    /\ Len(servers_list) >= 2
    /\ servers_data[1].key = servers_list[2]
    /\ servers_data[2].key = servers_list[1]

\* what a write for host h leaves of the entries of the other hosts
OthersKept(h) ==
    \A j \in 1 .. Len(servers_data) :
        servers_data[j].key /= h =>
            /\ DictHas(servers_data', servers_data[j].key)
            /\ DictGet(servers_data', servers_data[j].key) = servers_data[j].value

\* a write is one iteration of main's loop for one consumed outcome: the
\* entry of that call's host then holds that call's inventory
WriteByMain(i) ==
    /\ mpc = "as_completed"
    /\ Succeeded(i)
    /\ DictHas(servers_data', servers_list[i])
    /\ DictGet(servers_data', servers_list[i]) = result[i]
    /\ OthersKept(servers_list[i])
    /\ \A j \in Calls \ {i} : CallState(j)' = CallState(j)

\* a step of the worker running call i touches nothing of another call
WorkerStepIsLocal(i) ==
    (tpc'[i] /= tpc[i] /\ ~Consumes(i)) =>
        /\ servers_data' = servers_data
        /\ \A j \in Calls \ {i} : CallState(j)' = CallState(j)

\* C19: servers_data is the only state the collections have in common, and
\* it is written by the main thread alone, one consumed outcome at a time:
\* no worker step changes it or another call's state, every change of it
\* is the write for exactly one consumed call, after which that host's
\* entry is that call's inventory and every other host's entry is as
\* before, with duplicate identifiers too.
C19_WritesByMainOneAtATime ==
    [][/\ \A i \in Calls : WorkerStepIsLocal(i)
       /\ servers_data' /= servers_data =>
             \E i \in Calls : Consumes(i) /\ WriteByMain(i)
       /\ \A i \in Calls : (Consumes(i) /\ Succeeded(i)) => WriteByMain(i)]_vars

\* the second collection of a host listed twice has replaced the first
C19_Witness ==
    /\ Len(servers_list) >= 2
    /\ servers_list[1] = servers_list[2]
    /\ tpc[1] = "yielded" /\ tpc[2] = "yielded"
    /\ Succeeded(1) /\ Succeeded(2)
    /\ result[1] /= result[2]
    /\ Len(servers_data) = 1
    /\ servers_data[1].value = result[2]

====
